---- MODULE Spec2Model ----
(***************************************************************************)
(* VariableRenderer (checkov/common/graph/variable_rendering/renderer.py): *)
(* the iterative edge-rendering pass over a LocalGraph, and the grouping   *)
(* of edges by origin and label.                                           *)
(***************************************************************************)
EXTENDS Bags, FiniteSets, Integers, Sequences, TLC

(* ------------------------------ bounds --------------------------------- *)

\* vertices of the exhaustively enumerated graphs: 0 .. NumVertices-1
NumVertices == 3

\* most edges an exhaustively enumerated graph has
MaxEdges == 3

\* RENDER_ASYNC_MAX_WORKERS ranges over 1 .. MaxWorkers
MaxWorkers == 2

\* the chain graphs are up to MAX_NUMBER_OF_LOOPS + Overshoot edges long
Overshoot == 1

\* longest edge list handed to group_edges_by_origin_and_label on its own
MaxGroupInput == 3

(* ------------------------- program constants --------------------------- *)

MAX_NUMBER_OF_LOOPS == 50

(* ------------------------------ helpers -------------------------------- *)

Range(s) == {s[i] : i \in DOMAIN s}

\* every order in which a list can hold the elements of S, each once
Orderings(S) == {s \in [1..Cardinality(S) -> S] : Range(s) = S}

RECURSIVE SubsetsUpTo(_, _)
SubsetsUpTo(S, k) ==
    IF k = 0 THEN {{}}
    ELSE LET P == SubsetsUpTo(S, k - 1)
         IN  P \cup {p \cup {e} : p \in P, e \in S}

Min(a, b) == IF a <= b THEN a ELSE b

(* ------------------------------- edges --------------------------------- *)

Edge(origin, dest, label) == [origin |-> origin, dest |-> dest, label |-> label]

\* the attributes of a vertex that can hold references: vertex 0 has two,
\* every other vertex one
Labels(v) == IF v = 0 THEN {"a", "b"} ELSE {"a"}

(* --------------------------- the input graphs -------------------------- *)

SmallVertices == 0..(NumVertices - 1)

SmallEdges ==
    UNION {{Edge(o, d, l) : d \in SmallVertices, l \in Labels(o)} : o \in SmallVertices}

SmallGraphs ==
    {[vertices |-> SmallVertices, edges |-> E] : E \in SubsetsUpTo(SmallEdges, MaxEdges)}

\* 0 -> 1 -> ... -> n, only vertex n has out-degree 0
Chain(n) ==
    [vertices |-> 0..n, edges |-> {Edge(i, i + 1, "a") : i \in 0..(n - 1)}]

\* a chain beside a vertex that references itself
ChainAndLoop(n) ==
    [vertices |-> 0..(n + 1),
     edges |-> Chain(n).edges \cup {Edge(n + 1, n + 1, "a")}]

MaxChain == MAX_NUMBER_OF_LOOPS + Overshoot

ChainGraphs ==
    {Chain(n) : n \in 1..MaxChain} \cup {ChainAndLoop(n) : n \in (MaxChain - 2)..MaxChain}

Graphs == SmallGraphs \cup ChainGraphs

(* ----------------------- LocalGraph query surface ---------------------- *)

out_edges(g, v) == {e \in g.edges : e.origin = v}

in_edges(g, v) == {e \in g.edges : e.dest = v}

\* the out-degree is not looked at
out_degree_cond_any(degree) == degree >= 0

out_degree_cond(degree) == degree = 0

in_degree_cond(degree) == degree > 0

get_vertices_with_degrees_conditions(g) ==
    {v \in g.vertices : /\ out_degree_cond(Cardinality(out_edges(g, v)))
                        /\ in_degree_cond(Cardinality(in_edges(g, v)))}

\* the in-edges of the vertices listed in end_vertices (a bag of vertices)
get_in_edges(g, end_vertices) ==
    {e \in g.edges : BagIn(e.dest, end_vertices)}

(* ------------------ group_edges_by_origin_and_label -------------------- *)

\* f"{edge.origin}{edge.label}": the decimal digits of origin, then label
origin_and_label(edge) == ToString(edge.origin) \o edge.label

\* the digest of a text: equal texts have equal digests, distinct texts
\* distinct ones
calculate_hash(text) == <<"sha256", text>>

\* edge_groups is a dict in insertion order: a sequence of [key, val]
DictIndex(d, k) ==
    IF \E i \in DOMAIN d : d[i].key = k
    THEN CHOOSE i \in DOMAIN d : d[i].key = k
    ELSE 0

DictGet(d, k) == IF DictIndex(d, k) = 0 THEN <<>> ELSE d[DictIndex(d, k)].val

DictSet(d, k, v) ==
    IF DictIndex(d, k) = 0
    THEN Append(d, [key |-> k, val |-> v])
    ELSE [d EXCEPT ![DictIndex(d, k)].val = v]

\* every edge opens a group of its own
GroupEdgeAlone(edge_groups, edge) ==
    Append(edge_groups, [key |-> calculate_hash(origin_and_label(edge)), val |-> <<edge>>])

\* the group is emptied whether or not it already holds edges
GroupEdgeReset(edge_groups, edge) ==
    LET origin_and_label_hash == calculate_hash(origin_and_label(edge))
        d1 == DictSet(edge_groups, origin_and_label_hash, <<>>)
    IN  DictSet(d1, origin_and_label_hash,
                Append(DictGet(d1, origin_and_label_hash), edge))

\* one pass of the for loop's body
GroupEdge(edge_groups, edge) ==
    LET origin_and_label_hash == calculate_hash(origin_and_label(edge))
        d1 == IF DictGet(edge_groups, origin_and_label_hash) = <<>>
              THEN DictSet(edge_groups, origin_and_label_hash, <<>>)
              ELSE edge_groups
    IN  DictSet(d1, origin_and_label_hash,
                Append(DictGet(d1, origin_and_label_hash), edge))

RECURSIVE GroupLoop(_, _)
GroupLoop(edge_groups, edges) ==
    IF edges = <<>> THEN edge_groups
    ELSE GroupLoop(GroupEdge(edge_groups, Head(edges)), Tail(edges))

group_edges_by_origin_and_label(edges) ==
    LET edge_groups == GroupLoop(<<>>, edges)
    IN  [i \in DOMAIN edge_groups |-> edge_groups[i].val]

(* ------------------------- loop bookkeeping ---------------------------- *)

\* done_edges_by_origin_vertex.get(origin, [])
DoneOf(done, origin) == IF origin \in DOMAIN done THEN done[origin] ELSE EmptyBag

\* only the first pending edge is recorded
RecordDoneFirstOnly(done, edges) ==
    IF edges = <<>> THEN done
    ELSE LET edge == Head(edges)
         IN  (edge.origin :> (DoneOf(done, edge.origin) (+) SetToBag({edge}))) @@ done

\* an edge is appended to the list of its origin twice
RECURSIVE RecordDoneTwice(_, _)
RecordDoneTwice(done, edges) ==
    IF edges = <<>> THEN done
    ELSE LET edge == Head(edges)
             bag == DoneOf(done, edge.origin) (+) SetToBag({edge}) (+) SetToBag({edge})
         IN  RecordDoneTwice((edge.origin :> bag) @@ done, Tail(edges))

\* the list of an origin is assigned where the code appends to it
RECURSIVE RecordDoneOverwrite(_, _)
RecordDoneOverwrite(done, edges) ==
    IF edges = <<>> THEN done
    ELSE LET edge == Head(edges)
         IN  RecordDoneOverwrite((edge.origin :> SetToBag({edge})) @@ done, Tail(edges))

RECURSIVE RecordDone(_, _)
RecordDone(done, edges) ==
    IF edges = <<>> THEN done
    ELSE LET edge == Head(edges)
             origin == edge.origin
             d1 == IF origin \notin DOMAIN done
                   THEN done @@ (origin :> EmptyBag)
                   ELSE done
         IN  RecordDone([d1 EXCEPT ![origin] = @ (+) SetToBag({edge})], Tail(edges))

\* any() where the code has all()
AnyOutEdgeDone(g, done, origin_vertex_index) ==
    \E e \in out_edges(g, origin_vertex_index) :
        BagIn(e, DoneOf(done, origin_vertex_index))

AllOutEdgesDone(g, done, origin_vertex_index) ==
    \A e \in out_edges(g, origin_vertex_index) :
        BagIn(e, DoneOf(done, origin_vertex_index))

\* the edge's destination is appended where the code appends its origin
RECURSIVE ExtendEndVerticesDest(_, _, _, _)
ExtendEndVerticesDest(g, done, end_vertices, edges) ==
    IF edges = <<>> THEN end_vertices
    ELSE ExtendEndVerticesDest(
             g, done,
             IF AllOutEdgesDone(g, done, Head(edges).origin)
             THEN end_vertices (+) SetToBag({Head(edges).dest})
             ELSE end_vertices,
             Tail(edges))

\* the origin is appended whether or not all its out-edges are done
RECURSIVE ExtendEndVerticesAlways(_, _, _, _)
ExtendEndVerticesAlways(g, done, end_vertices, edges) ==
    IF edges = <<>> THEN end_vertices
    ELSE ExtendEndVerticesAlways(
             g, done, end_vertices (+) SetToBag({Head(edges).origin}), Tail(edges))

RECURSIVE ExtendEndVertices(_, _, _, _)
ExtendEndVertices(g, done, end_vertices, edges) ==
    IF edges = <<>> THEN end_vertices
    ELSE LET origin_vertex_index == Head(edges).origin
         IN  ExtendEndVertices(
                 g, done,
                 IF AllOutEdgesDone(g, done, origin_vertex_index)
                 THEN end_vertices (+) SetToBag({origin_vertex_index})
                 ELSE end_vertices,
                 Tail(edges))

\* the done edges of the destination are looked up, not those of the origin
NotDoneEdgesByDest(g, done, end_vertices) ==
    {edge \in get_in_edges(g, end_vertices) :
        ~BagIn(edge, DoneOf(done, edge.dest))}

\* the done edges are not filtered out
NotDoneEdgesUnfiltered(g, done, end_vertices) == get_in_edges(g, end_vertices)

NotDoneEdges(g, done, end_vertices) ==
    {edge \in get_in_edges(g, end_vertices) :
        ~BagIn(edge, DoneOf(done, edge.origin))}

\* a bound that no graph considered here reaches
BoundReachedNever(n) == n >= MAX_NUMBER_OF_LOOPS + MaxChain

\* > where the code has >=
BoundReachedLate(n) == n > MAX_NUMBER_OF_LOOPS

BoundReached(n) == n >= MAX_NUMBER_OF_LOOPS

(* --------------------------- graph analysis ---------------------------- *)

\* what is left after removing, again and again, the vertices with no edge
\* into the rest: the vertices from which a cycle can be reached
RECURSIVE Prune(_, _)
Prune(g, S) ==
    LET S2 == {v \in S : \E e \in out_edges(g, v) : e.dest \in S}
    IN  IF S2 = S THEN S ELSE Prune(g, S2)

RECURSIVE ReachableFrom(_, _)
ReachableFrom(g, S) ==
    LET S2 == S \cup {e.dest : e \in {x \in g.edges : x.origin \in S}}
    IN  IF S2 = S THEN S ELSE ReachableFrom(g, S2)

\* the longest path from v to a vertex without out-edges, in edges
RECURSIVE HeightIn(_, _)
HeightIn(g, v) ==
    IF out_edges(g, v) = {} THEN 0
    ELSE LET hs == {HeightIn(g, e.dest) : e \in out_edges(g, v)}
         IN  1 + CHOOSE h \in hs : \A k \in hs : k <= h

Analyse(g) ==
    LET cyc == Prune(g, g.vertices)
        on == {v \in cyc : v \in ReachableFrom(g, {e.dest : e \in out_edges(g, v)})}
        ends == {v \in g.vertices : out_edges(g, v) = {} /\ in_edges(g, v) # {}}
    IN  [reaches_cycle |-> cyc,
         on_cycle |-> on,
         height |-> [v \in g.vertices \ cyc |-> HeightIn(g, v)] @@ <<>>,
         is_chain |-> /\ cyc = {}
                      /\ Cardinality(ends) = 1
                      /\ \A v \in g.vertices : /\ Cardinality(out_edges(g, v)) <= 1
                                                /\ Cardinality(in_edges(g, v)) <= 1]

(* ----------------------------- replace_cache --------------------------- *)

\* [{}] * n: the dict literal is evaluated once, and the list holds n
\* references to that one object
ListRepeat(n) ==
    [cache |-> [i \in 0..(n - 1) |-> 1], objects |-> [r \in 1..1 |-> <<>>]]

\* the strategy notes in the scratch dict of the group's origin vertex that
\* it has handled the group's attribute
StrategyWrite(objects, cache, edge_group) ==
    LET edge == edge_group[1]
    IN  [objects EXCEPT ![cache[edge.origin]] =
            (origin_and_label(edge) :> edge.origin) @@ @]

(* ------------------------------- state --------------------------------- *)

VARIABLES
    local_graph,                  \* [vertices, edges]
    graph_facts,                  \* Analyse(local_graph), for the properties only
    run_async,                    \* RENDER_VARIABLES_ASYNC == "True"
    max_workers,                  \* RENDER_ASYNC_MAX_WORKERS
    replace_cache,                \* list with one reference to a dict per vertex
    dict_objects,                 \* the dict objects, by reference
    done_edges_by_origin_vertex,  \* origin -> bag of edges
    end_vertices_indexes,         \* bag of vertices
    edges_to_render,              \* list of edges
    edges_groups,                 \* list of lists of edges
    loops,
    group_index,                  \* the group the sequential for loop is at
    tasks,                        \* pooled mode: the state of each submitted task
    evaluated,                    \* bag of the calls of the evaluation strategy so far
    warned,                       \* the "Reached 50 graph edge iterations" warning
    updated,                      \* calls of update_vertices_configs
    fallback,                     \* calls of evaluate_non_rendered_values
    pc

vars == <<local_graph, graph_facts, run_async, max_workers, replace_cache,
          dict_objects, done_edges_by_origin_vertex,
          end_vertices_indexes, edges_to_render, edges_groups, loops,
          group_index, tasks, evaluated, warned, updated, fallback, pc>>

config == <<local_graph, graph_facts, run_async, max_workers, replace_cache>>

history == <<warned, updated, fallback>>

(* -------------------------------- Init --------------------------------- *)

InitRenderer ==
    /\ run_async \in BOOLEAN
    /\ max_workers \in 1..MaxWorkers
    /\ done_edges_by_origin_vertex = <<>>
    /\ LET list == ListRepeat(Cardinality(local_graph.vertices))
       IN  replace_cache = list.cache /\ dict_objects = list.objects
    /\ end_vertices_indexes = EmptyBag
    /\ edges_groups = <<>>
    /\ loops = 0
    /\ group_index = 1
    /\ tasks = <<>>
    /\ evaluated = EmptyBag
    /\ warned = FALSE
    /\ updated = 0
    /\ fallback = 0

Init ==
    /\ local_graph \in Graphs
    /\ graph_facts = Analyse(local_graph)
    /\ InitRenderer
    /\ edges_to_render = <<>>
    /\ pc = "start"

(* ------------------------------ actions -------------------------------- *)

\* lines 41-47
Start ==
    /\ pc = "start"
    /\ LET end == SetToBag(get_vertices_with_degrees_conditions(local_graph))
       IN  /\ end_vertices_indexes' = end
           /\ edges_to_render' \in Orderings(get_in_edges(local_graph, end))
    /\ loops' = 0
    /\ pc' = "while"
    /\ UNCHANGED <<config, dict_objects, done_edges_by_origin_vertex, edges_groups, group_index,
                   tasks, evaluated, history>>

\* the loop exit goes past update_vertices_configs
WhileSkipUpdate ==
    /\ pc = "while"
    /\ IF Len(edges_to_render) > 0
       THEN /\ edges_groups' = group_edges_by_origin_and_label(edges_to_render)
            /\ pc' = "dispatch"
       ELSE /\ edges_groups' = edges_groups
            /\ pc' = "fallback"
    /\ group_index' = 1
    /\ UNCHANGED <<config, dict_objects, done_edges_by_origin_vertex, end_vertices_indexes,
                   edges_to_render, loops, tasks, evaluated, history>>

\* line 48, and line 51 when the loop is entered
While ==
    /\ pc = "while"
    /\ IF Len(edges_to_render) > 0
       THEN /\ edges_groups' = group_edges_by_origin_and_label(edges_to_render)
            /\ pc' = "dispatch"
       ELSE /\ edges_groups' = edges_groups
            /\ pc' = "materialize"
    /\ group_index' = 1
    /\ UNCHANGED <<config, dict_objects, done_edges_by_origin_vertex, end_vertices_indexes,
                   edges_to_render, loops, tasks, evaluated, history>>

\* _edge_evaluation_task([edge_group]): inner_edges = edges[0], then the strategy
Invocation(edge_group) == [loop |-> loops, group |-> <<edge_group>>[1]]

\* lines 59-61: one pass of the sequential for loop; a raise leaves the method
EvaluateSequential ==
    /\ pc = "dispatch"
    /\ ~run_async
    /\ group_index <= Len(edges_groups)
    /\ evaluated' = evaluated (+) SetToBag({Invocation(edges_groups[group_index])})
    /\ dict_objects' = StrategyWrite(dict_objects, replace_cache, edges_groups[group_index])
    /\ \E raises \in BOOLEAN :
          IF raises
          THEN /\ pc' = "raised"
               /\ group_index' = group_index
          ELSE /\ group_index' = group_index + 1
               /\ pc' = IF group_index = Len(edges_groups) THEN "bookkeep" ELSE pc
    /\ UNCHANGED <<config, done_edges_by_origin_vertex, end_vertices_indexes,
                   edges_to_render, edges_groups, loops, tasks, history>>

\* Submit that does not wait for the tasks
SubmitNoWait ==
    /\ pc = "dispatch"
    /\ run_async
    /\ tasks' = [i \in DOMAIN edges_groups |-> "queued"]
    /\ pc' = "bookkeep"
    /\ UNCHANGED <<config, dict_objects, done_edges_by_origin_vertex, end_vertices_indexes,
                   edges_to_render, edges_groups, loops, group_index, evaluated,
                   history>>

\* lines 52-58: run_function_multithreaded submits one task per group
Submit ==
    /\ pc = "dispatch"
    /\ run_async
    /\ tasks' = [i \in DOMAIN edges_groups |-> "queued"]
    /\ pc' = "pool"
    /\ UNCHANGED <<config, dict_objects, done_edges_by_origin_vertex, end_vertices_indexes,
                   edges_to_render, edges_groups, loops, group_index, evaluated,
                   history>>

Running == {i \in DOMAIN tasks : tasks[i] = "running"}

\* a free worker takes a queued task and calls _edge_evaluation_task on it
TaskStart(i) ==
    /\ pc = "pool"
    /\ tasks[i] = "queued"
    /\ Cardinality(Running) < Min(max_workers, Len(edges_groups))
    /\ tasks' = [tasks EXCEPT ![i] = "running"]
    /\ evaluated' = evaluated (+) SetToBag({Invocation(edges_groups[i])})
    /\ dict_objects' = StrategyWrite(dict_objects, replace_cache, edges_groups[i])
    /\ UNCHANGED <<config, done_edges_by_origin_vertex, end_vertices_indexes,
                   edges_to_render, edges_groups, loops, group_index, history, pc>>

\* the task returns or raises
TaskEnd(i) ==
    /\ pc = "pool"
    /\ tasks[i] = "running"
    /\ \E raises \in BOOLEAN :
          tasks' = [tasks EXCEPT ![i] = IF raises THEN "failed" ELSE "finished"]
    /\ UNCHANGED <<config, dict_objects, done_edges_by_origin_vertex, end_vertices_indexes,
                   edges_to_render, edges_groups, loops, group_index, evaluated,
                   history, pc>>

\* the barrier: every task has ended; a failure is raised only now
Join ==
    /\ pc = "pool"
    /\ \A i \in DOMAIN tasks : tasks[i] \in {"finished", "failed"}
    /\ pc' = IF \E i \in DOMAIN tasks : tasks[i] = "failed" THEN "raised" ELSE "bookkeep"
    /\ tasks' = tasks
    /\ UNCHANGED <<config, dict_objects, done_edges_by_origin_vertex, end_vertices_indexes,
                   edges_to_render, edges_groups, loops, group_index, evaluated,
                   history>>

\* lines 62-86
Bookkeep ==
    /\ pc = "bookkeep"
    /\ LET done == RecordDone(done_edges_by_origin_vertex, edges_to_render)
           end == ExtendEndVertices(local_graph, done, end_vertices_indexes,
                                    edges_to_render)
       IN  /\ done_edges_by_origin_vertex' = done
           /\ end_vertices_indexes' = end
           /\ edges_to_render' \in Orderings(NotDoneEdges(local_graph, done, end))
    /\ loops' = loops + 1
    /\ IF BoundReached(loops + 1)
       THEN /\ warned' = TRUE
            /\ pc' = "materialize"
       ELSE /\ warned' = warned
            /\ pc' = "while"
    /\ tasks' = <<>>
    /\ UNCHANGED <<config, dict_objects, edges_groups, group_index, evaluated, updated, fallback>>

\* line 88
Materialize ==
    /\ pc = "materialize"
    /\ updated' = updated + 1
    /\ pc' = "fallback"
    /\ UNCHANGED <<config, dict_objects, done_edges_by_origin_vertex, end_vertices_indexes,
                   edges_to_render, edges_groups, loops, group_index, tasks,
                   evaluated, warned, fallback>>

\* lines 90, 112-113
evaluate_non_rendered_values ==
    /\ pc = "fallback"
    /\ fallback' = fallback + 1
    /\ pc' = "done"
    /\ UNCHANGED <<config, dict_objects, done_edges_by_origin_vertex, end_vertices_indexes,
                   edges_to_render, edges_groups, loops, group_index, tasks,
                   evaluated, warned, updated>>

Next ==
    \/ Start
    \/ While
    \/ EvaluateSequential
    \/ Submit
    \/ \E i \in DOMAIN tasks : TaskStart(i)
    \/ \E i \in DOMAIN tasks : TaskEnd(i)
    \/ Join
    \/ Bookkeep
    \/ Materialize
    \/ evaluate_non_rendered_values

Spec == Init /\ [][Next]_vars

(* ------------- group_edges_by_origin_and_label on its own -------------- *)

GroupOrigins == {1, 12}

GroupLabels == {"a", "2a"}

GroupEdges == {Edge(o, d, l) : o \in GroupOrigins, d \in {0, 2}, l \in GroupLabels}

GroupInputs == UNION {[1..n -> GroupEdges] : n \in 0..MaxGroupInput}

InitGroup ==
    /\ local_graph = [vertices |-> {}, edges |-> {}]
    /\ graph_facts = Analyse(local_graph)
    /\ InitRenderer
    /\ edges_to_render \in GroupInputs
    /\ pc = "group"

Group ==
    /\ pc = "group"
    /\ edges_groups' = group_edges_by_origin_and_label(edges_to_render)
    /\ pc' = "grouped"
    /\ UNCHANGED <<config, dict_objects, done_edges_by_origin_vertex, end_vertices_indexes,
                   edges_to_render, loops, group_index, tasks, evaluated, history>>

NextGroup == Group

SpecGroup == InitGroup /\ [][NextGroup]_vars

Facts == graph_facts

\* the vertices from which a cycle can be reached
ReachesCycle == Facts.reaches_cycle

\* the vertices that lie on a cycle
OnCycle == Facts.on_cycle

Acyclic == Facts.reaches_cycle = {}

\* the graph's edges are v1 -> v2 -> ... -> v(k+1) and no others
IsChain == Facts.is_chain

Height(v) == Facts.height[v]

\* the longest dependency path of an acyclic graph, in edges
LongestPath ==
    LET hs == {Height(v) : v \in DOMAIN Facts.height} \cup {0}
    IN  CHOOSE h \in hs : \A k \in hs : k <= h

Rendering == pc \notin {"group", "grouped"}

InLoopBody == pc \in {"dispatch", "pool", "bookkeep"}

Invocations == BagToSet(evaluated)

DoneEdges ==
    UNION {BagToSet(done_edges_by_origin_vertex[o]) : o \in DOMAIN done_edges_by_origin_vertex}

(* ------------------------------- claims -------------------------------- *)

\* C1: an edge is handed to the evaluation strategy only when its destination
\* is ready: every outgoing edge of the destination (there may be none) was
\* recorded done in an earlier iteration.  In the state right after a call the
\* current iteration's edges are not recorded yet.
C1_DestinationReady ==
    Rendering =>
        \A r \in Invocations : \A i \in DOMAIN r.group :
            \A e \in out_edges(local_graph, r.group[i].dest) :
                BagIn(e, DoneOf(done_edges_by_origin_vertex, e.origin))

\* an edge into a vertex that has out-edges of its own has been evaluated
C1_Witness ==
    \E r \in Invocations : \E i \in DOMAIN r.group :
        out_edges(local_graph, r.group[i].dest) # {}

\* steps one loop iteration can take: the loop test, one start and one end per
\* group or one pass of the for loop per group, submit, join, the bookkeeping
IterationSteps == 2 * Cardinality(local_graph.edges) + 5

Ended == {i \in DOMAIN tasks : tasks[i] \in {"finished", "failed"}}

\* the steps the pass can still take, at most
Measure ==
    LET base == (MAX_NUMBER_OF_LOOPS - loops) * IterationSteps
    IN  CASE pc = "start" -> (MAX_NUMBER_OF_LOOPS + 1) * IterationSteps
          [] pc = "while" -> base + IterationSteps - 1
          [] pc = "dispatch" -> base + IterationSteps - 1 - group_index
          [] pc = "pool" ->
                base + IterationSteps - 3 - Cardinality(Running) - 2 * Cardinality(Ended)
          [] pc = "bookkeep" -> base + 1
          [] pc = "materialize" -> 2
          [] pc = "fallback" -> 1
          [] OTHER -> 0

\* C2: the loop body runs only with pending edges and a counter below
\* MAX_NUMBER_OF_LOOPS, so at most MAX_NUMBER_OF_LOOPS times; and the loop
\* terminates on every graph: each step of the pass lowers a measure that is
\* never negative.
C2_LoopBounded ==
    /\ [](Rendering =>
            /\ loops <= MAX_NUMBER_OF_LOOPS
            /\ InLoopBody => (Len(edges_to_render) > 0 /\ loops < MAX_NUMBER_OF_LOOPS)
            /\ \A r \in Invocations : r.loop < MAX_NUMBER_OF_LOOPS
            /\ Measure >= 0)
    /\ [][Rendering => Measure' < Measure]_vars

\* the loop was stopped by the bound, with edges still pending
C2_Witness ==
    pc = "done" /\ loops = MAX_NUMBER_OF_LOOPS /\ Len(edges_to_render) > 0

\* the edges the strategy was called with
EvaluatedEdges == UNION {Range(r.group) : r \in Invocations}

\* C3 as amended: on an acyclic graph whose longest dependency path has at
\* most MAX_NUMBER_OF_LOOPS edges, a pass that returns has evaluated and
\* recorded every edge, in as many iterations as the longest path has edges;
\* on a deeper acyclic graph the loop stops after MAX_NUMBER_OF_LOOPS
\* iterations and exactly the edges into vertices of height
\* MAX_NUMBER_OF_LOOPS or more are left out.
C3_AcyclicResolvedWithinBound ==
    (Rendering /\ pc = "done" /\ Acyclic) =>
        /\ loops = Min(LongestPath, MAX_NUMBER_OF_LOOPS)
        /\ DoneEdges = {e \in local_graph.edges : Height(e.dest) < MAX_NUMBER_OF_LOOPS}
        /\ EvaluatedEdges = DoneEdges

\* a pass over an acyclic graph with a path of two or more edges has returned
C3_Witness ==
    /\ Rendering /\ pc = "done" /\ Acyclic
    /\ LongestPath >= 2
    /\ Cardinality(local_graph.edges) >= 3
    /\ DoneEdges = local_graph.edges

\* C3 as stated: on every acyclic graph every edge is evaluated and recorded
\* by the end of the pass, in at most longest-path many iterations.
C3_AcyclicResolved ==
    (Rendering /\ pc = "done" /\ Acyclic) =>
        /\ DoneEdges = local_graph.edges
        /\ loops <= LongestPath

\* the first n iterations each called the strategy once, with the one edge
\* whose destination is that many links above the sink
OneEdgePerIteration(n) ==
    /\ Invocations =
          {[loop |-> Height(e.dest), group |-> <<e>>] :
              e \in {x \in local_graph.edges : Height(x.dest) < n}}
    /\ \A r \in Invocations : CopiesIn(r, evaluated) = 1

\* C4 as amended: on a chain of k edges the loop runs min(k, 50) iterations,
\* one edge per iteration from the sink end upward: exactly k when k <= 50.
C4_ChainIterations ==
    (Rendering /\ pc = "done" /\ IsChain) =>
        /\ loops = Min(Cardinality(local_graph.edges), MAX_NUMBER_OF_LOOPS)
        /\ OneEdgePerIteration(MAX_NUMBER_OF_LOOPS)

\* A -> B -> C -> D has converged in three iterations
C4_Witness ==
    /\ Rendering /\ pc = "done" /\ IsChain
    /\ Cardinality(local_graph.edges) = 3
    /\ loops = 3

\* C4 as stated: on a chain of k edges the loop runs exactly k iterations.
C4_ChainExactlyK ==
    (Rendering /\ pc = "done" /\ IsChain) =>
        /\ loops = Cardinality(local_graph.edges)
        /\ OneEdgePerIteration(Cardinality(local_graph.edges))

\* the vertices that have out-edges and were never added to the Frontier
Unresolved ==
    {v \in local_graph.vertices :
        out_edges(local_graph, v) # {} /\ ~BagIn(v, end_vertices_indexes)}

\* C5 as amended: on a graph with a cycle the loop stops within the bound, no
\* vertex on a cycle is ever added to the Frontier, and when the pass returns
\* the unresolved vertices are exactly those from which a cycle can be
\* reached (on it, or with some reference path into it) together with those
\* whose longest dependency path has more than MAX_NUMBER_OF_LOOPS edges.
C5_CycleUnresolved ==
    (Rendering /\ ReachesCycle # {}) =>
        /\ loops <= MAX_NUMBER_OF_LOOPS
        /\ \A v \in OnCycle : ~BagIn(v, end_vertices_indexes)
        /\ pc = "done" =>
              Unresolved =
                  ReachesCycle \cup
                  {v \in local_graph.vertices \ ReachesCycle :
                      Height(v) > MAX_NUMBER_OF_LOOPS}

\* a pass has returned on a graph with a cycle and a vertex off the cycle that
\* references into it, after evaluating some edge
C5_Witness ==
    /\ Rendering /\ pc = "done"
    /\ ReachesCycle \ OnCycle # {}
    /\ loops >= 1

\* C5 as stated: the unresolved vertices are exactly those on a cycle or
\* whose references lead through one.
C5_ExactlyCycleVertices ==
    (Rendering /\ ReachesCycle # {}) =>
        /\ loops <= MAX_NUMBER_OF_LOOPS
        /\ \A v \in OnCycle : ~BagIn(v, end_vertices_indexes)
        /\ pc = "done" => Unresolved = ReachesCycle

\* the only edges are A -> B and B -> A
IsTwoCycle ==
    /\ Cardinality(local_graph.edges) = 2
    /\ \E a, b \in local_graph.vertices :
          /\ a # b
          /\ {<<e.origin, e.dest>> : e \in local_graph.edges} = {<<a, b>>, <<b, a>>}

\* C6 as amended: on the two-vertex cycle no vertex has out-degree 0, so
\* pending starts empty: the loop body never runs (0 iterations, no warning,
\* no strategy call), both vertices stay unresolved, and the materialize step
\* and the fallback pass are then called.
C6_TwoCycleNoIteration ==
    (Rendering /\ IsTwoCycle) =>
        /\ loops = 0
        /\ ~InLoopBody
        /\ evaluated = EmptyBag
        /\ end_vertices_indexes = EmptyBag
        /\ ~warned
        /\ pc = "done" => (updated = 1 /\ fallback = 1)

\* the pass over a two-vertex cycle has returned
C6_Witness == Rendering /\ IsTwoCycle /\ pc = "done"

\* C6 as stated: on the two-vertex cycle the loop runs until the bound is
\* reached, both vertices stay unresolved, and the fallback pass is called.
C6_TwoCycleRunsToBound ==
    (Rendering /\ IsTwoCycle /\ pc = "done") =>
        /\ loops = MAX_NUMBER_OF_LOOPS
        /\ end_vertices_indexes = EmptyBag
        /\ fallback = 1

SameKey(a, b) == a.origin = b.origin /\ a.label = b.label

\* C7: every group returned by group_edges_by_origin_and_label holds edges of
\* one (origin, label) pair only, whatever the origins and labels are.
C7_GroupsShareOneKey ==
    pc = "grouped" =>
        \A i \in DOMAIN edges_groups :
            \A a, b \in Range(edges_groups[i]) : SameKey(a, b)

RECURSIVE SeqBag(_)
SeqBag(s) == IF s = <<>> THEN EmptyBag ELSE SetToBag({Head(s)}) (+) SeqBag(Tail(s))

RECURSIVE GroupsBag(_)
GroupsBag(gs) == IF gs = <<>> THEN EmptyBag ELSE SeqBag(Head(gs)) (+) GroupsBag(Tail(gs))

\* C8: the groups partition the input: taken together they hold every input
\* edge as often as the input does (none added, none dropped, none in two
\* groups), no group is empty, and edges with the same (origin, label) are
\* never in different groups.
C8_TotalPartition ==
    pc = "grouped" =>
        /\ GroupsBag(edges_groups) = SeqBag(edges_to_render)
        /\ \A i \in DOMAIN edges_groups : edges_groups[i] # <<>>
        /\ \A i, j \in DOMAIN edges_groups :
              i # j => \A a \in Range(edges_groups[i]), b \in Range(edges_groups[j]) :
                          ~SameKey(a, b)

\* an input was split into several groups, one of them with several edges
C8_Witness ==
    /\ pc = "grouped"
    /\ Len(edges_groups) >= 2
    /\ \E i \in DOMAIN edges_groups : Len(edges_groups[i]) >= 2

Key(r) == <<r.group[1].origin, r.group[1].label>>

\* C9 as amended: no edge is dispatched twice in a pass: every call of the
\* strategy is made once, two calls never share an edge, and within one
\* iteration a key is dispatched once; a key can come back in a later
\* iteration, with edges that were not dispatched before.
C9_GroupsDisjoint ==
    Rendering =>
        \A r1 \in Invocations :
            /\ CopiesIn(r1, evaluated) = 1
            /\ \A i, j \in DOMAIN r1.group : r1.group[i] = r1.group[j] => i = j
            /\ \A r2 \in Invocations \ {r1} :
                  /\ Range(r1.group) \cap Range(r2.group) = {}
                  /\ r1.loop = r2.loop => Key(r1) # Key(r2)

\* one (origin, label) key was dispatched in two iterations
C9_Witness ==
    \E r1, r2 \in Invocations : Key(r1) = Key(r2) /\ r1.loop # r2.loop

\* C9 as stated: no (origin, label) key is dispatched in more than one
\* iteration of the main loop.
C9_KeyInOneIteration ==
    Rendering =>
        \A r1, r2 \in Invocations : Key(r1) = Key(r2) => r1.loop = r2.loop

\* C10: when the strategy fails for a group, every group of that dispatch
\* call has been attempted by the time the failure reaches the caller.
C10_AllGroupsAttempted ==
    (Rendering /\ pc = "raised") =>
        \A i \in DOMAIN edges_groups :
            BagIn([loop |-> loops, group |-> edges_groups[i]], evaluated)

\* the groups of the current dispatch call for which the strategy raised
FailedGroups ==
    IF run_async
    THEN {i \in DOMAIN tasks : tasks[i] = "failed"}
    ELSE {group_index}

\* C11: when the strategy fails for one group, the edges of the other groups
\* of that batch are recorded in DoneSet, and their origins considered for
\* the Frontier, by the time the failure reaches the caller.
C11_OthersRecordedBeforeRaise ==
    (Rendering /\ pc = "raised") =>
        \A i \in DOMAIN edges_groups \ FailedGroups :
            \A e \in Range(edges_groups[i]) :
                /\ BagIn(e, DoneOf(done_edges_by_origin_vertex, e.origin))
                /\ AllOutEdgesDone(local_graph, done_edges_by_origin_vertex, e.origin)
                      => BagIn(e.origin, end_vertices_indexes)

\* the iterations whose dispatch was begun when the pass ended
IterationsBegun == IF pc = "raised" THEN loops + 1 ELSE loops

\* the edges that are pending in one of the first n iterations: iteration j
\* has the edges into the vertices of height j
PendingWithin(n) ==
    {e \in local_graph.edges : e.dest \notin ReachesCycle /\ Height(e.dest) < n}

\* the vertices in the Frontier after n iterations were recorded
FrontierAfter(n) ==
    {v \in local_graph.vertices \ ReachesCycle :
        /\ Height(v) <= n
        /\ out_edges(local_graph, v) # {} \/ in_edges(local_graph, v) # {}}

\* C12: the result of a pass does not depend on the execution mode or on the
\* interleaving of the workers: when the pass ends, by returning or by
\* handing a failure of the strategy to the caller, the edges evaluated in
\* each iteration, the DoneSet and the Frontier are those that the graph and
\* the number of iterations begun determine, the same with and without
\* concurrency.
C12_SameResultInEveryMode ==
    (Rendering /\ pc \in {"done", "raised"}) =>
        /\ EvaluatedEdges = PendingWithin(IterationsBegun)
        /\ \A r \in Invocations : \A e \in Range(r.group) : r.loop = Height(e.dest)
        /\ DoneEdges = PendingWithin(loops)
        /\ BagToSet(end_vertices_indexes) = FrontierAfter(loops)

\* the submitted tasks that have not finished evaluating
Unfinished == {i \in DOMAIN tasks : tasks[i] \in {"queued", "running"}}

\* C13: pooled dispatch is a full barrier: while a group submitted in the
\* current iteration has not finished, no edge of the iteration is in the
\* DoneSet, and no step records an edge, adds a vertex to the Frontier,
\* advances the iteration or starts a group of another iteration.
C13_DispatchIsBarrier ==
    /\ []((Rendering /\ run_async /\ Unfinished # {}) =>
            /\ Range(edges_to_render) \cap DoneEdges = {}
            /\ \A r \in Invocations : r.loop <= loops)
    /\ [][(Rendering /\ run_async /\ Unfinished # {}) =>
            /\ done_edges_by_origin_vertex' = done_edges_by_origin_vertex
            /\ end_vertices_indexes' = end_vertices_indexes
            /\ loops' = loops
            /\ edges_groups' = edges_groups
            /\ \A r \in BagToSet(evaluated') :
                  BagIn(r, evaluated) \/ r.loop = loops]_vars

\* in the second iteration or later one task has finished while another
\* group of the same batch has not
C13_Witness ==
    /\ Rendering /\ run_async /\ pc = "pool" /\ loops >= 1
    /\ \E i, j \in DOMAIN tasks : tasks[i] = "finished" /\ j \in Unfinished

\* C14: the DoneSet only grows: in every step of a pass each vertex keeps its
\* entry, no recorded edge is removed from it and its count of recorded
\* edges does not decrease.
C14_DoneSetMonotonic ==
    [][Rendering =>
          \A o \in DOMAIN done_edges_by_origin_vertex :
              /\ o \in DOMAIN done_edges_by_origin_vertex'
              /\ done_edges_by_origin_vertex[o] \sqsubseteq done_edges_by_origin_vertex'[o]
              /\ BagCardinality(done_edges_by_origin_vertex[o]) <=
                    BagCardinality(done_edges_by_origin_vertex'[o])]_vars

\* a vertex has edges that were recorded in different iterations
C14_Witness ==
    /\ Rendering
    /\ \E o \in DOMAIN done_edges_by_origin_vertex :
          \E e1, e2 \in BagToSet(done_edges_by_origin_vertex[o]) :
              Height(e1.dest) # Height(e2.dest)

\* C15 as amended: the warning is recorded exactly when the iteration counter
\* reaches MAX_NUMBER_OF_LOOPS, whether or not edges are still pending then;
\* a pass that ends in fewer iterations never records it.
C15_WarnedAtBound ==
    Rendering =>
        /\ warned <=> loops >= MAX_NUMBER_OF_LOOPS
        /\ (pc = "done" /\ Len(edges_to_render) > 0) => warned

\* the pass converged in the iteration that reached the bound, and warned
C15_Witness ==
    /\ Rendering /\ pc = "done"
    /\ warned
    /\ Len(edges_to_render) = 0
    /\ DoneEdges = local_graph.edges

\* C15 as stated: the warning is recorded exactly when the loop stops at the
\* bound with edges still pending; a pass that converges never records it.
C15_WarnedOnlyWhenPending ==
    (Rendering /\ pc = "done") =>
        (warned <=> (loops >= MAX_NUMBER_OF_LOOPS /\ Len(edges_to_render) > 0))

\* C16: in a pass in which no call of the strategy fails,
\* update_vertices_configs is called once, after the last iteration, and
\* evaluate_non_rendered_values once, after it; from the first of the two
\* calls on there is no call of the strategy and no further iteration.
C16_MaterializeThenFallbackOnce ==
    /\ [](Rendering =>
            /\ updated = (IF pc \in {"fallback", "done"} THEN 1 ELSE 0)
            /\ fallback = (IF pc = "done" THEN 1 ELSE 0)
            /\ pc = "materialize" =>
                  (Len(edges_to_render) = 0 \/ loops >= MAX_NUMBER_OF_LOOPS))
    /\ [][(Rendering /\ updated + fallback > 0) =>
            /\ evaluated' = evaluated
            /\ loops' = loops
            /\ done_edges_by_origin_vertex' = done_edges_by_origin_vertex
            /\ updated' >= updated
            /\ fallback' >= fallback]_vars

\* a pass with two or more iterations has returned before the bound
C16_Witness ==
    /\ Rendering /\ pc = "done"
    /\ loops >= 2 /\ ~warned
    /\ updated = 1 /\ fallback = 1

\* what is read through the slot of vertex v
Slot(v) == dict_objects[replace_cache[v]]

\* C17: replace_cache has one slot per vertex, empty at the start, and what
\* the strategy writes into the slot of one vertex is not visible in the
\* slot of another: every entry read through the slot of v was written for v.
C17_SlotsIndependent ==
    Rendering =>
        /\ DOMAIN replace_cache = local_graph.vertices
        /\ pc = "start" => \A v \in local_graph.vertices : Slot(v) = <<>>
        /\ \A v \in local_graph.vertices :
              \A k \in DOMAIN Slot(v) : Slot(v)[k] = v

\* the keys of the edges of a group
GroupKeys(edge_group) == {<<e.origin, e.label>> : e \in Range(edge_group)}

\* C18: in pooled mode no two tasks that run at the same time handle the
\* same (origin, label) key: the groups of a dispatch call have pairwise
\* disjoint keys, there is one task per group, and a group is handed to the
\* strategy once, when its task starts.
C18_RunningTasksDistinctKeys ==
    (Rendering /\ run_async /\ pc = "pool") =>
        /\ DOMAIN tasks = DOMAIN edges_groups
        /\ \A i, j \in DOMAIN edges_groups :
              i # j => GroupKeys(edges_groups[i]) \cap GroupKeys(edges_groups[j]) = {}
        /\ \A i \in DOMAIN tasks :
              CopiesIn([loop |-> loops, group |-> edges_groups[i]], evaluated) =
                  (IF tasks[i] = "queued" THEN 0 ELSE 1)

\* two tasks with the same origin and different labels run at the same time
C18_Witness ==
    /\ Rendering /\ run_async /\ pc = "pool"
    /\ \E i, j \in Running :
          /\ i # j
          /\ edges_groups[i][1].origin = edges_groups[j][1].origin
          /\ edges_groups[i][1].label # edges_groups[j][1].label

\* C19: every iteration makes strict progress: in the loop body the pending
\* edges are not empty and none of them is in the DoneSet, the bookkeeping
\* of an iteration adds at least one edge to the DoneSet, and so the number
\* of iterations never exceeds the number of edges recorded, which never
\* exceeds the number of edges of the graph.
C19_StrictProgress ==
    /\ [](Rendering =>
            /\ InLoopBody =>
                  /\ Len(edges_to_render) > 0
                  /\ Range(edges_to_render) \cap DoneEdges = {}
            /\ loops <= Cardinality(DoneEdges)
            /\ DoneEdges \subseteq local_graph.edges)
    /\ [][(Rendering /\ loops' # loops) =>
            /\ loops' = loops + 1
            /\ DoneEdges \subseteq DoneEdges'
            /\ Cardinality(DoneEdges') > Cardinality(DoneEdges)]_vars

\* a graph with a cycle and fewer edges than the bound: the loop has ended
\* with edges never recorded
C19_Witness ==
    /\ Rendering /\ pc = "done"
    /\ ReachesCycle # {}
    /\ loops >= 1
    /\ loops < Cardinality(local_graph.edges)
    /\ ~warned

\* the places of the edges in the calls of the strategy
EvaluationPlaces == UNION {{<<r, i>> : i \in DOMAIN r.group} : r \in Invocations}

\* the entries of the DoneSet
RecordPlaces ==
    UNION {{<<o, e>> : e \in BagToSet(done_edges_by_origin_vertex[o])} :
              o \in DOMAIN done_edges_by_origin_vertex}

\* C20: within one pass every edge is handed to the strategy at most once
\* and recorded in the DoneSet at most once, under its origin, however often
\* a vertex is appended to the Frontier list: no call is made twice, there
\* are as many places in the calls as edges evaluated, every entry of the
\* DoneSet is there once, and only evaluated edges are recorded.
C20_EdgeAtMostOnce ==
    Rendering =>
        /\ \A r \in Invocations : CopiesIn(r, evaluated) = 1
        /\ Cardinality(EvaluationPlaces) = Cardinality(EvaluatedEdges)
        /\ \A p \in RecordPlaces :
              /\ p[2].origin = p[1]
              /\ CopiesIn(p[2], done_edges_by_origin_vertex[p[1]]) = 1
        /\ DoneEdges \subseteq EvaluatedEdges

\* a vertex is in the Frontier list twice, and an edge into it was evaluated
\* and recorded
C20_Witness ==
    /\ Rendering
    /\ \E e \in DoneEdges \cap EvaluatedEdges :
          CopiesIn(e.dest, end_vertices_indexes) >= 2

====
